---- MODULE Spec2Model ----
(***************************************************************************)
(* Model of wb-rest-order (src/main.rs): an axum service with two routes.  *)
(*   POST /order  handle_order: decode an Order, store it in the shared    *)
(*                slot under a tokio Mutex, insert it into Postgres.       *)
(*   GET  /       show_order: render the slot.                             *)
(* Requests run as concurrent tasks; each action below is the code between *)
(* two suspension points (.await) of one task.                             *)
(***************************************************************************)
EXTENDS Integers, Sequences, FiniteSets, TLC

\* ------------------------------------------------------------------ bounds
\* Number of HTTP requests that arrive in one behaviour.
MaxReqs == 3

Reqs == 1..MaxReqs

None == [t |-> "none"]

\* ------------------------------------------------------------ JSON values
\* A JSON number n is kept as hi * 2^31 + lo with 0 <= lo < 2^31, so that
\* the whole u32 and u64 range is representable.
TwoPow31Less1 == 2147483647

JStr(s) == [t |-> "str", v |-> s]
JNum(hi, lo) == [t |-> "num", hi |-> hi, lo |-> lo]
JArr(a) == [t |-> "arr", v |-> a]
JObj(o) == [t |-> "obj", v |-> o]
JBytes == [t |-> "bytes"]

IsStr(j) == j.t = "str"
IsU32(j) == j.t = "num" /\ j.hi \in {0, 1} /\ j.lo \in 0..TwoPow31Less1
IsU64(j) == j.t = "num" /\ j.hi \in 0..TwoPow31Less1 /\ j.lo \in 0..TwoPow31Less1

Num(j) == [hi |-> j.hi, lo |-> j.lo]

\* ------------------------------------------------------------- data model
DeliveryStr == {"name", "phone", "zip", "city", "address", "region", "email"}

PaymentStr == {"transaction", "request_id", "currency", "provider", "bank"}
PaymentU32 == {"amount", "delivery_cost", "goods_total", "custom_fee"}
PaymentU64 == {"payment_dt"}

ItemStr == {"track_number", "rid", "name", "size", "brand"}
ItemU32 == {"price", "sale", "total_price", "status"}
ItemU64 == {"chrt_id", "nm_id"}

OrderStr == {"order_uid", "track_number", "entry", "locale", "internal_signature",
             "customer_id", "delivery_service", "shardkey", "oof_shard"}
OrderFields == OrderStr \cup {"delivery", "payment", "items", "sm_id", "date_created"}

\* serde's derived Deserialize for a struct of String / u32 / u64 fields:
\* the value must be a map, every field must be present and of its type;
\* unknown keys are ignored.
StructOk(j, strs, u32s, u64s) ==
    /\ j.t = "obj"
    /\ \A f \in strs \cup u32s \cup u64s : f \in DOMAIN j.v
    /\ \A f \in strs : IsStr(j.v[f])
    /\ \A f \in u32s : IsU32(j.v[f])
    /\ \A f \in u64s : IsU64(j.v[f])

StructOf(j, strs, nums) ==
    [f \in strs \cup nums |-> IF f \in strs THEN j.v[f].v ELSE Num(j.v[f])]

DeliveryOk(j) == StructOk(j, DeliveryStr, {}, {})
PaymentOk(j) == StructOk(j, PaymentStr, PaymentU32, PaymentU64)
ItemOk(j) == StructOk(j, ItemStr, ItemU32, ItemU64)
ItemsOk(j) == j.t = "arr" /\ \A i \in DOMAIN j.v : ItemOk(j.v[i])

\* --------------------------------------------------------------- timestamps
\* A timestamp text is the sequence of its lexical parts.  RFC 3339 is
\* <<date, "T", time, offset>> with offset "Z" or a numeric +hh:mm / -hh:mm.
Dates == {"2021-11-26", "2024-02-29"}
Times == {"06:22:19", "23:59:59"}
NumOffsets == {"+00:00", "+03:00", "-05:30"}

ParseOffset(o) == IF o \in {"Z", "z"} THEN "+00:00" ELSE o

\* A parser that also takes a space between date and time (ISO 8601 style).
Rfc3339Ok_space_separator(s) ==
    /\ Len(s) = 4
    /\ s[1] \in Dates
    /\ s[2] \in {"T", "t", " "}
    /\ s[3] \in Times
    /\ s[4] \in NumOffsets \cup {"Z", "z"}

\* OffsetDateTime::parse accepts the text under the Rfc3339 description.
Rfc3339Ok(s) ==
    /\ Len(s) = 4
    /\ s[1] \in Dates
    /\ s[2] \in {"T", "t"}
    /\ s[3] \in Times
    /\ s[4] \in NumOffsets \cup {"Z", "z"}

\* OffsetDateTime::parse(&s, &Rfc3339)
ParseRfc3339(s) == [date |-> s[1], time |-> s[3], offset |-> ParseOffset(s[4])]

\* deserialize_offset_datetime: the value must be a JSON string, and the
\* string must parse as RFC 3339.
DateCreatedOk(j) == IsStr(j) /\ Rfc3339Ok(j.v)

deserialize_offset_datetime(j) == ParseRfc3339(j.v)

\* ------------------------------------------------------------ Order Decoder
\* Json<Order> extractor: the body must be JSON text and must deserialize
\* into Order.
OrderOk(j) ==
    /\ j.t = "obj"
    /\ \A f \in OrderFields : f \in DOMAIN j.v
    /\ \A f \in OrderStr : IsStr(j.v[f])
    /\ DeliveryOk(j.v.delivery)
    /\ PaymentOk(j.v.payment)
    /\ ItemsOk(j.v.items)
    /\ IsU32(j.v.sm_id)
    /\ DateCreatedOk(j.v.date_created)

OrderOf(j) ==
    [f \in OrderFields |->
        CASE f \in OrderStr -> j.v[f].v
          [] f = "delivery" -> StructOf(j.v.delivery, DeliveryStr, {})
          [] f = "payment" -> StructOf(j.v.payment, PaymentStr, PaymentU32 \cup PaymentU64)
          [] f = "items" -> [i \in DOMAIN j.v.items.v |->
                                StructOf(j.v.items.v[i], ItemStr, ItemU32 \cup ItemU64)]
          [] f = "sm_id" -> Num(j.v.sm_id)
          [] f = "date_created" -> deserialize_offset_datetime(j.v.date_created)]

Decode(body) ==
    IF OrderOk(body) THEN [ok |-> TRUE, order |-> OrderOf(body)]
    ELSE [ok |-> FALSE, order |-> None]

\* ------------------------------------------------------------ serialization
\* serde's derived Serialize for a struct of String / u32 / u64 fields.
StructToJson(x, strs) ==
    JObj([f \in DOMAIN x |-> IF f \in strs THEN JStr(x[f]) ELSE JNum(x[f].hi, x[f].lo)])

DeliveryToJson(d) == StructToJson(d, DeliveryStr)
PaymentToJson(p) == StructToJson(p, PaymentStr)
ItemsToJson(items) == JArr([i \in DOMAIN items |-> StructToJson(items[i], ItemStr)])

\* The time crate's Serialize for OffsetDateTime, which the derived Serialize
\* of Order uses for date_created (only deserialize_with is overridden).
\* With the crate's human-readable feature the value is written as the string
\* "<date> <time>.<subsecond> <+hh:mm:ss>"; without it, as an array of the
\* numeric components.  Neither form has the "T" separator of RFC 3339.
SerializeOffsetDateTime(dt, humanReadable) ==
    IF humanReadable
    THEN JStr(<<dt.date, " ", dt.time, ".0", " ", dt.offset, ":00">>)
    ELSE JArr(<<JStr(dt.date), JStr(dt.time), JStr("0"), JStr(dt.offset)>>)

OrderToJson(o, humanReadable) ==
    JObj([f \in OrderFields |->
        CASE f \in OrderStr -> JStr(o[f])
          [] f = "delivery" -> DeliveryToJson(o.delivery)
          [] f = "payment" -> PaymentToJson(o.payment)
          [] f = "items" -> ItemsToJson(o.items)
          [] f = "sm_id" -> JNum(o.sm_id.hi, o.sm_id.lo)
          [] f = "date_created" -> SerializeOffsetDateTime(o.date_created, humanReadable)])

\* ---------------------------------------------------------------- responses
Response(ctype, tag, body) == [ctype |-> ctype, tag |-> tag, body |-> body]

NoResponse == Response("none", "", JStr(""))
Rejection == Response("rejection", "", JStr(""))
OrderReceived == Response("text", "", JStr("Order received"))
FailedToSave == Response("text", "", JStr("Failed to save order"))
Placeholder == Response("html", "p", JStr("No order received yet."))

\* A page that treats an order without items as no order.
RenderSlot_needs_items(slot, humanReadable) ==
    IF slot # None /\ slot.items # <<>>
    THEN Response("html", "pre", OrderToJson(slot, humanReadable))
    ELSE Placeholder

\* show_order's body once the lock is held: the slot decides the page.
RenderSlot(slot, humanReadable) ==
    IF slot # None
    THEN Response("html", "pre", OrderToJson(slot, humanReadable))
    ELSE Placeholder

\* ------------------------------------------------------------------ payloads
U(n) == JNum(0, n)

DeliveryA ==
    JObj([name |-> JStr("Test Testov"), phone |-> JStr("+9720000000"),
          zip |-> JStr("2639809"), city |-> JStr("Kiryat Mozkin"),
          address |-> JStr("Ploshad Mira 15"), region |-> JStr("Kraiot"),
          email |-> JStr("test@gmail.com")])

DeliveryB ==
    JObj([name |-> JStr("Ivan Ivanov"), phone |-> JStr("+70000000000"),
          zip |-> JStr("101000"), city |-> JStr("Moscow"),
          address |-> JStr("Tverskaya 1"), region |-> JStr("Moscow"),
          email |-> JStr("ivan@example.com")])

PaymentA ==
    JObj([transaction |-> JStr("b563feb7b2b84b6test"), request_id |-> JStr(""),
          currency |-> JStr("USD"), provider |-> JStr("wbpay"), amount |-> U(1817),
          payment_dt |-> U(1637907727), bank |-> JStr("alpha"),
          delivery_cost |-> U(1500), goods_total |-> U(317), custom_fee |-> U(0)])

PaymentB ==
    JObj([transaction |-> JStr("c674gfc8c3c95c7test"), request_id |-> JStr("r2"),
          currency |-> JStr("RUB"), provider |-> JStr("wbpay"), amount |-> U(100),
          payment_dt |-> JNum(3, 5), bank |-> JStr("sber"),
          delivery_cost |-> U(0), goods_total |-> U(999), custom_fee |-> U(1)])

ItemA ==
    JObj([chrt_id |-> U(9934930), track_number |-> JStr("WBILMTESTTRACK"),
          price |-> U(453), rid |-> JStr("ab4219087a764ae0btest"),
          name |-> JStr("Mascaras"), sale |-> U(30), size |-> JStr("0"),
          total_price |-> U(317), nm_id |-> U(2389212), brand |-> JStr("Vivienne Sabo"),
          status |-> U(202)])

\* The sample order of the task: one item, sm_id 99, a "Z" timestamp.
PayloadA ==
    JObj([order_uid |-> JStr("b563feb7b2b84b6test"), track_number |-> JStr("WBILMTESTTRACK"),
          entry |-> JStr("WBIL"), delivery |-> DeliveryA, payment |-> PaymentA,
          items |-> JArr(<<ItemA>>), locale |-> JStr("en"),
          internal_signature |-> JStr(""), customer_id |-> JStr("test"),
          delivery_service |-> JStr("meest"), shardkey |-> JStr("9"),
          sm_id |-> U(99),
          date_created |-> JStr(<<"2021-11-26", "T", "06:22:19", "Z">>),
          oof_shard |-> JStr("1")])

\* A second order that differs from PayloadA in every group: no items, a
\* goods_total that matches nothing, sm_id = 3000000000 (above i32::MAX), a
\* numeric offset.
PayloadB ==
    JObj([order_uid |-> JStr("c674gfc8c3c95c7test"), track_number |-> JStr("WBILMOTHERTRACK"),
          entry |-> JStr("WBRU"), delivery |-> DeliveryB, payment |-> PaymentB,
          items |-> JArr(<<>>), locale |-> JStr("ru"),
          internal_signature |-> JStr("sig"), customer_id |-> JStr("ivan"),
          delivery_service |-> JStr("cdek"), shardkey |-> JStr("3"),
          sm_id |-> JNum(1, 852516352),
          date_created |-> JStr(<<"2024-02-29", "T", "23:59:59", "+03:00">>),
          oof_shard |-> JStr("2")])

\* PayloadA with a timestamp that is not RFC 3339 (a space for the "T").
PayloadBadDate ==
    JObj([f \in DOMAIN PayloadA.v |->
            IF f = "date_created" THEN JStr(<<"2021-11-26", " ", "06:22:19", "Z">>)
            ELSE PayloadA.v[f]])

GoodPayloads == {PayloadA, PayloadB}
BadPayloads == {PayloadBadDate}
Payloads == GoodPayloads \cup BadPayloads

\* Payload p with the value of field f replaced by v.
WithField(p, f, v) == JObj([g \in DOMAIN p.v |-> IF g = f THEN v ELSE p.v[g]])

\* The texts the Rfc3339 format description admits.
Rfc3339Texts ==
    {<<d, s, t, o>> : d \in Dates, s \in {"T", "t"}, t \in Times,
                      o \in NumOffsets \cup {"Z", "z"}}

\* Values of date_created that are not an RFC 3339 string: a space for the
\* "T", no offset, a date only, the empty string, a day and an hour that do
\* not exist, Unix seconds as a number, null, and the two forms in which the
\* time crate itself writes an OffsetDateTime.
BadDateValues ==
    { JStr(<<"2021-11-26", " ", "06:22:19", "Z">>),
      JStr(<<"2021-11-26", "T", "06:22:19">>),
      JStr(<<"2021-11-26">>),
      JStr(<<>>),
      JStr(<<"2021-02-30", "T", "06:22:19", "Z">>),
      JStr(<<"2021-11-26", "T", "25:00:00", "Z">>),
      U(1637907727),
      [t |-> "null"],
      SerializeOffsetDateTime(ParseRfc3339(<<"2021-11-26", "T", "06:22:19", "Z">>), TRUE),
      SerializeOffsetDateTime(ParseRfc3339(<<"2021-11-26", "T", "06:22:19", "Z">>), FALSE) }

DateValues == {JStr(s) : s \in Rfc3339Texts} \cup BadDateValues

\* PayloadA with sm_id given as a string: a body some other field of which
\* does not decode.
PayloadWrongSmId == WithField(PayloadA, "sm_id", JStr("99"))

BasePayloads == GoodPayloads \cup {PayloadWrongSmId}

\* Bodies of POST /order: every base payload with every value of date_created.
WidePayloads == {WithField(p, "date_created", d) : p \in BasePayloads, d \in DateValues}

\* --------------------------------------------------------------- Order Store
Columns == OrderFields

\* Column types of CREATE TABLE IF NOT EXISTS orders (...) in init_orders_shema.
DeclaredSchema ==
    [c \in Columns |->
        CASE c \in {"delivery", "payment", "items"} -> "JSONB"
          [] c = "sm_id" -> "VARCHAR"
          [] c = "date_created" -> "TIMESTAMPTZ"
          [] c = "oof_shard" -> "INTEGER"
          [] OTHER -> "VARCHAR"]

\* Postgres types of the fourteen parameters save_order_to_db binds:
\* String -> VARCHAR, serde_json::Value -> JSONB, i32 -> INTEGER,
\* OffsetDateTime -> TIMESTAMPTZ.
ParamTypes ==
    [c \in Columns |->
        CASE c \in {"delivery", "payment", "items"} -> "JSONB"
          [] c = "sm_id" -> "INTEGER"
          [] c = "date_created" -> "TIMESTAMPTZ"
          [] OTHER -> "VARCHAR"]

\* `order.sm_id as i32`: a u32 above i32::MAX wraps to a negative value.
AsI32(u) == IF u.hi = 0 THEN u.lo ELSE u.lo - TwoPow31Less1 - 1

\* The values bound to $1..$14.
BindParams(o) ==
    [c \in Columns |->
        CASE c = "delivery" -> DeliveryToJson(o.delivery)
          [] c = "payment" -> PaymentToJson(o.payment)
          [] c = "items" -> ItemsToJson(o.items)
          [] c = "sm_id" -> AsI32(o.sm_id)
          [] OTHER -> o[c]]

\* The INSERT is executed iff the statement reaches the server, the table
\* exists and every parameter has the type of its column.
InsertAccepted(tbl, ioOk) ==
    /\ ioOk
    /\ tbl # None
    /\ \A c \in Columns : tbl[c] = ParamTypes[c]

\* An upsert on order_uid: a row with the same order_uid is replaced.
InsertRow_upsert(rs, params) ==
    IF \E i \in DOMAIN rs : rs[i].order_uid = params.order_uid
    THEN [i \in DOMAIN rs |->
            IF rs[i].order_uid = params.order_uid
            THEN [c \in Columns \cup {"id"} |-> IF c = "id" THEN rs[i].id ELSE params[c]]
            ELSE rs[i]]
    ELSE Append(rs, [c \in Columns \cup {"id"} |-> IF c = "id" THEN Len(rs) + 1 ELSE params[c]])

\* INSERT INTO orders (...) VALUES (...): one new row, id from the SERIAL.
InsertRow(rs, params) ==
    Append(rs, [c \in Columns \cup {"id"} |-> IF c = "id" THEN Len(rs) + 1 ELSE params[c]])

\* An INSERT whose row stays in the table although the call reports Err.
RowsAfterSave_dirty(rs, tbl, o, ioOk) ==
    IF InsertAccepted(tbl, TRUE) THEN InsertRow(rs, BindParams(o)) ELSE rs

\* save_order_to_db's effect on the table, and its Result.
RowsAfterSave(rs, tbl, o, ioOk) ==
    IF InsertAccepted(tbl, ioOk) THEN InsertRow(rs, BindParams(o)) ELSE rs

SaveResult(tbl, ioOk) == IF InsertAccepted(tbl, ioOk) THEN "ok" ELSE "err"

\* CREATE TABLE without IF NOT EXISTS after a DROP: the table is made anew.
TableAfterCreate_recreate(tbl) == DeclaredSchema

\* CREATE TABLE IF NOT EXISTS: an existing table is left as it is.
TableAfterCreate(tbl) == IF tbl = None THEN DeclaredSchema ELSE tbl

\* init_orders_shema's Result: .execute(pool).await? fails only when the
\* statement cannot be executed; IF NOT EXISTS makes an existing table no error.
SchemaResult(tbl, ioOk) == IF ioOk THEN "ok" ELSE "err"

\* The database the process is started against: no orders table, a table
\* that an earlier start created, or a table whose columns have the types
\* the INSERT binds, holding a row of an earlier run.
LegacyRow == InsertRow(<<>>, BindParams(Decode(PayloadA).order))

InitialStores ==
    { [table |-> None, rows |-> <<>>],
      [table |-> DeclaredSchema, rows |-> <<>>],
      [table |-> ParamTypes, rows |-> LegacyRow] }

\* --------------------------------------------------------------------- state
VARIABLES
    mainPc,        \* where main() is: "start", "pool", "schema" (or "schema_failed",
                   \* the error printed), "serving", "aborted"
    timeSerde,     \* how the build's time crate serializes OffsetDateTime: "string"
                   \* or "tuple"; fixed by the build, "unobserved" until a page shows it
    table,         \* the orders table: None or its column types
    rows,          \* the rows of the orders table, in insertion order
    rows0,         \* the rows the table held when the process started
    cache,         \* shared_state: Mutex<Option<Order>>, the slot
    lockHolder,    \* request holding the MutexGuard, 0 when the Mutex is free
    waiters,       \* FIFO queue of requests suspended in lock().await
    lockLog,       \* the requests in the order they acquired the Mutex
    pc,            \* per request: position of its task
    method,        \* per request: "GET" or "POST"
    body,          \* per request: the request body
    order,         \* per request: the decoded Order (handle_order's `order`)
    saveRes,       \* per request: Result of save_order_to_db
    attempts,      \* per request: number of INSERTs issued
    resp,          \* per request: the response sent
    sequential     \* no request has arrived while another was in progress

vars == <<mainPc, timeSerde, table, rows, rows0, cache, lockHolder, waiters,
          lockLog, pc, method, body, order, saveRes, attempts, resp, sequential>>

storeVars == <<table, rows, rows0>>
lockVars == <<lockHolder, waiters, lockLog>>
reqVars == <<method, body, order, saveRes, attempts, resp, sequential>>

Terminal == {"done", "rejected"}

\* let shared_state = Arc::new(Mutex::new(None));
InitialSlot == None

Init ==
    /\ mainPc = "start"
    /\ timeSerde = "unobserved"
    /\ \E s \in InitialStores : table = s.table /\ rows = s.rows /\ rows0 = s.rows
    /\ cache = InitialSlot
    /\ lockHolder = 0
    /\ waiters = <<>>
    /\ lockLog = <<>>
    /\ pc = [r \in Reqs |-> "idle"]
    /\ method = [r \in Reqs |-> "GET"]
    /\ body = [r \in Reqs |-> JBytes]
    /\ order = [r \in Reqs |-> None]
    /\ saveRes = [r \in Reqs |-> "none"]
    /\ attempts = [r \in Reqs |-> 0]
    /\ resp = [r \in Reqs |-> NoResponse]
    /\ sequential = TRUE

\* ------------------------------------------------------------------- startup
\* env::var("DATABASE_URL").expect(..) and PgPoolOptions::connect(..).expect(..):
\* a failure panics, the process ends.
Connect ==
    /\ mainPc = "start"
    /\ \E ok \in BOOLEAN : mainPc' = IF ok THEN "pool" ELSE "aborted"
    /\ UNCHANGED <<timeSerde, storeVars, cache, lockVars, pc, reqVars>>

\* if let Err(e) = init_orders_shema(&pool).await { eprintln!(..) }: an error
\* is printed and main goes on.
InitSchema ==
    /\ mainPc = "pool"
    /\ \E ioOk \in BOOLEAN :
         /\ table' = IF ioOk THEN TableAfterCreate(table) ELSE table
         /\ mainPc' = IF SchemaResult(table, ioOk) = "ok" THEN "schema" ELSE "schema_failed"
    /\ UNCHANGED <<timeSerde, rows, rows0, cache, lockVars, pc, reqVars>>

\* axum::Server::bind(&addr) panics when the address cannot be bound.
Bind ==
    /\ mainPc \in {"schema", "schema_failed"}
    /\ \E ok \in BOOLEAN : mainPc' = IF ok THEN "serving" ELSE "aborted"
    /\ UNCHANGED <<timeSerde, storeVars, cache, lockVars, pc, reqVars>>

\* ------------------------------------------------------------- the Mutex
\* A lock that hands out the guard whether or not another request has it.
Lock_always_grants(r) ==
    /\ lockHolder' = r
    /\ lockLog' = Append(lockLog, r)
    /\ waiters' = waiters
    /\ pc' = [pc EXCEPT ![r] = "locked"]

\* tokio::sync::Mutex::lock(): the caller gets the guard at once when the
\* Mutex is free, else it is queued and suspended.
Lock(r) ==
    IF lockHolder = 0
    THEN /\ lockHolder' = r
         /\ lockLog' = Append(lockLog, r)
         /\ waiters' = waiters
         /\ pc' = [pc EXCEPT ![r] = "locked"]
    ELSE /\ waiters' = Append(waiters, r)
         /\ pc' = [pc EXCEPT ![r] = "waiting"]
         /\ UNCHANGED <<lockHolder, lockLog>>

\* A handler whose early return after a failed INSERT keeps the guard alive.
Unlock_leak_on_err(r) ==
    IF resp'[r] = FailedToSave
    THEN /\ pc' = [pc EXCEPT ![r] = "done"]
         /\ UNCHANGED <<lockHolder, waiters, lockLog>>
    ELSE IF waiters = <<>>
    THEN /\ lockHolder' = 0
         /\ pc' = [pc EXCEPT ![r] = "done"]
         /\ UNCHANGED <<waiters, lockLog>>
    ELSE /\ lockHolder' = Head(waiters)
         /\ waiters' = Tail(waiters)
         /\ lockLog' = Append(lockLog, Head(waiters))
         /\ pc' = [pc EXCEPT ![r] = "done", ![Head(waiters)] = "locked"]

\* Drop of the MutexGuard at the end of the handler: the Mutex goes to the
\* longest-waiting request, which resumes holding it, or becomes free.
Unlock(r) ==
    IF waiters = <<>>
    THEN /\ lockHolder' = 0
         /\ pc' = [pc EXCEPT ![r] = "done"]
         /\ UNCHANGED <<waiters, lockLog>>
    ELSE /\ lockHolder' = Head(waiters)
         /\ waiters' = Tail(waiters)
         /\ lockLog' = Append(lockLog, Head(waiters))
         /\ pc' = [pc EXCEPT ![r] = "done", ![Head(waiters)] = "locked"]

\* ---------------------------------------------------------------- requests
\* The server accepts a request and spawns its task.  Requests are numbered
\* in the order they arrive.
Arrive(r) ==
    /\ mainPc = "serving"
    /\ pc[r] = "idle"
    /\ \A q \in Reqs : q < r => pc[q] # "idle"
    /\ \E m \in {"GET", "POST"} :
         /\ method' = [method EXCEPT ![r] = m]
         /\ \E b \in (IF m = "POST" THEN Payloads ELSE {JBytes}) :
              body' = [body EXCEPT ![r] = b]
    /\ pc' = [pc EXCEPT ![r] = "arrived"]
    /\ sequential' = (sequential /\ \A q \in Reqs \ {r} : pc[q] \in Terminal \cup {"idle"})
    /\ UNCHANGED <<mainPc, timeSerde, storeVars, cache, lockVars, order, saveRes,
                   attempts, resp>>

\* An extractor that lets every body through to the handler.
ExtractRoute_lenient(ok) == "handler"

\* Where the Json<Order> extractor sends the request.
ExtractRoute(ok) == IF ok THEN "handler" ELSE "rejected"

\* Json(order): Json<Order> -- the extractor runs before the handler body;
\* when it fails axum answers with the rejection and handle_order is not called.
Extract(r) ==
    /\ pc[r] = "arrived"
    /\ method[r] = "POST"
    /\ LET dec == Decode(body[r]) IN
         /\ pc' = [pc EXCEPT ![r] = ExtractRoute(dec.ok)]
         /\ order' = [order EXCEPT ![r] = dec.order]
         /\ resp' = [resp EXCEPT ![r] = IF dec.ok THEN NoResponse ELSE Rejection]
    /\ UNCHANGED <<mainPc, timeSerde, storeVars, cache, lockVars, method, body,
                   saveRes, attempts, sequential>>

\* let mut state = app_state.shared_state.lock().await;
HandleOrderLock(r) ==
    /\ pc[r] = "handler"
    /\ method[r] = "POST"
    /\ Lock(r)
    /\ UNCHANGED <<mainPc, timeSerde, storeVars, cache, reqVars>>

\* Variants of the slot assignment: one that overwrites only part of the old
\* value, one that drops an order without items, one that keeps the first.
StoreSlot_merge(old, o) == IF old = None THEN o ELSE [o EXCEPT !["delivery"] = old.delivery]

StoreSlot_skip_empty(old, o) == IF o.items = <<>> THEN old ELSE o

StoreSlot_first(old, o) == IF old = None THEN o ELSE old

\* *state = Some(order.clone());
StoreSlot(old, o) == o

\* A handler that drops the guard right after the assignment, before the
\* INSERT is issued.
HandleOrderSet_release(r) ==
    /\ pc[r] = "locked"
    /\ method[r] = "POST"
    /\ lockHolder = r
    /\ cache' = StoreSlot(cache, order[r])
    /\ IF waiters = <<>>
       THEN /\ lockHolder' = 0
            /\ pc' = [pc EXCEPT ![r] = "written"]
            /\ UNCHANGED <<waiters, lockLog>>
       ELSE /\ lockHolder' = Head(waiters)
            /\ waiters' = Tail(waiters)
            /\ lockLog' = Append(lockLog, Head(waiters))
            /\ pc' = [pc EXCEPT ![r] = "written", ![Head(waiters)] = "locked"]
    /\ UNCHANGED <<mainPc, timeSerde, storeVars, reqVars>>

HandleOrderSet(r) ==
    /\ pc[r] = "locked"
    /\ method[r] = "POST"
    /\ lockHolder = r
    /\ cache' = StoreSlot(cache, order[r])
    /\ pc' = [pc EXCEPT ![r] = "written"]
    /\ UNCHANGED <<mainPc, timeSerde, storeVars, lockVars, reqVars>>

\* save_order_to_db(&app_state.db_pool, &order) up to .execute(pool).await:
\* the INSERT is sent, the task is suspended, the guard stays alive.
SaveCall(r) ==
    /\ pc[r] = "written"
    /\ attempts' = [attempts EXCEPT ![r] = @ + 1]
    /\ pc' = [pc EXCEPT ![r] = "saving"]
    /\ UNCHANGED <<mainPc, timeSerde, storeVars, cache, lockVars, method, body,
                   order, saveRes, resp, sequential>>

\* A handler that ignores the Result of save_order_to_db.
SaveResponse_ignore_err(res) == OrderReceived

\* The two return statements of handle_order.
SaveResponse(res) == IF res = "err" THEN FailedToSave ELSE OrderReceived

\* A handler that empties the slot when the INSERT failed.
SlotAfterSave_rollback(slot, res) == IF res = "err" THEN None ELSE slot

\* A handler that uses the slot as a buffer and empties it once the row is
\* in the table.
SlotAfterSave_clear_on_ok(slot, res) == IF res = "ok" THEN None ELSE slot

\* No statement of handle_order touches the slot after the INSERT returns:
\* the slot keeps its value whatever the Result is.
SlotAfterSave(slot, res) == slot

\* .execute(pool).await? returns: the row is in the table and the Result is
\* Ok, or the table is unchanged and the Result is Err.  The handler resumes:
\* if let Err(e) = .. { return "Failed to save order" } .. "Order received";
\* `state` is dropped on either path.
SaveReturn(r) ==
    /\ pc[r] = "saving"
    /\ \E ioOk \in BOOLEAN :
         /\ rows' = RowsAfterSave(rows, table, order[r], ioOk)
         /\ saveRes' = [saveRes EXCEPT ![r] = SaveResult(table, ioOk)]
    /\ cache' = SlotAfterSave(cache, saveRes'[r])
    /\ resp' = [resp EXCEPT ![r] = SaveResponse(saveRes'[r])]
    /\ Unlock(r)
    /\ UNCHANGED <<mainPc, timeSerde, table, rows0, method, body, order,
                   attempts, sequential>>

\* let state = app_state.shared_state.lock().await;
ShowOrderLock(r) ==
    /\ pc[r] = "arrived"
    /\ method[r] = "GET"
    /\ Lock(r)
    /\ UNCHANGED <<mainPc, timeSerde, storeVars, cache, reqVars>>

\* The serializer a page can be rendered with: the one the build has, which
\* the first page that shows an Order reveals.
TimeSerdeChoices(slot) ==
    IF timeSerde = "unobserved" /\ slot # None THEN {"string", "tuple"} ELSE {timeSerde}

\* The rest of show_order: render the slot, drop the guard.
ShowOrderRender(r) ==
    /\ pc[r] = "locked"
    /\ method[r] = "GET"
    /\ lockHolder = r
    /\ \E f \in TimeSerdeChoices(cache) :
         /\ timeSerde' = f
         /\ resp' = [resp EXCEPT ![r] = RenderSlot(cache, f = "string")]
    /\ Unlock(r)
    /\ UNCHANGED <<mainPc, storeVars, cache, method, body, order,
                   saveRes, attempts, sequential>>

\* ------------------------------------------------------------ specification
Next ==
    \/ Connect
    \/ InitSchema
    \/ Bind
    \/ \E r \in Reqs : Arrive(r)
    \/ \E r \in Reqs : Extract(r)
    \/ \E r \in Reqs : HandleOrderLock(r)
    \/ \E r \in Reqs : HandleOrderSet(r)
    \/ \E r \in Reqs : SaveCall(r)
    \/ \E r \in Reqs : SaveReturn(r)
    \/ \E r \in Reqs : ShowOrderLock(r)
    \/ \E r \in Reqs : ShowOrderRender(r)

Spec == Init /\ [][Next]_vars

\* The next step of request r's task, whichever it is.
Task(r) ==
    \/ Extract(r)
    \/ HandleOrderLock(r)
    \/ HandleOrderSet(r)
    \/ SaveCall(r)
    \/ SaveReturn(r)
    \/ ShowOrderLock(r)
    \/ ShowOrderRender(r)

\* The runtime polls every task that can run, and every INSERT returns.
\* Nothing obliges a client to send a request or the process to start.
Fairness == \A r \in Reqs : WF_vars(Task(r))

FairSpec == Spec /\ Fairness

\* The service with two requests in flight: a POST /order whose body is any
\* of WidePayloads, and a GET / or a POST /order of PayloadB beside it.  The
\* database is in any state it can be in when main starts to serve.
PayloadInit ==
    /\ mainPc = "serving"
    /\ timeSerde = "unobserved"
    /\ \E s \in InitialStores : table = s.table /\ rows = s.rows /\ rows0 = s.rows
    /\ cache = InitialSlot
    /\ lockHolder = 0
    /\ waiters = <<>>
    /\ lockLog = <<>>
    /\ pc = [r \in Reqs |-> IF r <= 2 THEN "arrived" ELSE "idle"]
    /\ \E b \in WidePayloads, m \in {"GET", "POST"} :
         /\ method = [r \in Reqs |-> IF r = 1 THEN "POST" ELSE IF r = 2 THEN m ELSE "GET"]
         /\ body = [r \in Reqs |-> IF r = 1 THEN b
                                   ELSE IF r = 2 /\ m = "POST" THEN PayloadB ELSE JBytes]
    /\ order = [r \in Reqs |-> None]
    /\ saveRes = [r \in Reqs |-> "none"]
    /\ attempts = [r \in Reqs |-> 0]
    /\ resp = [r \in Reqs |-> NoResponse]
    /\ sequential = FALSE

PayloadNext == \E r \in Reqs : Task(r)

PayloadSpec == PayloadInit /\ [][PayloadNext]_vars

TypeOK ==
    /\ mainPc \in {"start", "pool", "schema", "schema_failed", "serving", "aborted"}
    /\ lockHolder \in Reqs \cup {0}
    /\ \A r \in Reqs : pc[r] \in {"idle", "arrived", "handler", "rejected", "waiting",
                                  "locked", "written", "saving", "done"}

\* ------------------------------------------------------------ claim helpers
Posted(r) == method[r] = "POST" /\ pc[r] # "idle"

\* r is a POST /order whose body the Decoder accepted.
Decoded(r) == method[r] = "POST" /\ order[r] # None

\* The Order r submitted, as the Decoder handed it to handle_order.
Submitted(r) == order[r]

SubmittedOrders == {Submitted(r) : r \in {q \in Reqs : Decoded(q)}}

\* Every request that has arrived has completed.
Quiescent == \A r \in Reqs : pc[r] \in Terminal \cup {"idle"}

\* The decoded POST requests that have acquired the Mutex, and the last of them.
LockedPosts == {i \in DOMAIN lockLog : method[lockLog[i]] = "POST"}

LastLockedPost == lockLog[CHOOSE i \in LockedPosts : \A j \in LockedPosts : j <= i]

\* --------------------------------------------------------------------- C1
\* C1: in every reachable state the slot is absent or is, in full, one of
\* the Orders submitted by a POST /order; once all requests have completed
\* and at least one POST was decoded, the slot is one of the submitted Orders.
C1_SlotIsOneSubmittedOrder ==
    /\ cache = None \/ cache \in SubmittedOrders
    /\ (Quiescent /\ \E r \in Reqs : Decoded(r)) => cache \in SubmittedOrders

\* Two POSTs with distinct Orders overlapped and both completed.
C1_Witness ==
    /\ MaxReqs >= 2
    /\ Decoded(1) /\ Decoded(2) /\ Submitted(1) # Submitted(2)
    /\ pc[1] = "done" /\ pc[2] = "done"
    /\ \A r \in Reqs : r > 2 => pc[r] = "idle"
    /\ ~sequential
    /\ cache \in {Submitted(1), Submitted(2)}

\* --------------------------------------------------------------------- C2
\* The last POST before request r that was decoded, 0 if there is none.
DecodedBefore(r) == {q \in Reqs : q < r /\ Decoded(q)}

LastDecodedBefore(r) ==
    IF DecodedBefore(r) = {} THEN None
    ELSE Submitted(CHOOSE q \in DecodedBefore(r) : \A p \in DecodedBefore(r) : p <= q)

\* C2: when the requests run one after another, a GET / shows the Order of
\* the last POST /order before it that was decoded (the placeholder if none).
C2_SequentialGetShowsLastPost ==
    sequential =>
        \A r \in Reqs :
            (method[r] = "GET" /\ pc[r] = "done") =>
                resp[r] = RenderSlot(LastDecodedBefore(r), timeSerde = "string")

\* set(A), set(B), get() one after another: the page shows B.
C2_Witness ==
    /\ MaxReqs >= 3
    /\ sequential
    /\ Decoded(1) /\ Decoded(2) /\ Submitted(1) # Submitted(2)
    /\ method[3] = "GET" /\ pc[3] = "done"
    /\ resp[3] = Response("html", "pre", OrderToJson(Submitted(2), timeSerde = "string"))

\* --------------------------------------------------------------------- C3
\* C3: once all requests have completed, the slot holds the Order of the POST
\* that acquired the Mutex last, whatever the order of arrival.
C3_LastLockerWins ==
    (Quiescent /\ LockedPosts # {}) => cache = order[LastLockedPost]

\* The POST that arrived first acquired the Mutex last, and its Order stays.
C3_Witness ==
    /\ Quiescent
    /\ \E r, q \in Reqs :
         /\ r < q
         /\ Decoded(r) /\ Decoded(q) /\ Submitted(r) # Submitted(q)
         /\ LastLockedPost = r
         /\ cache = Submitted(r)

\* --------------------------------------------------------------------- C4
\* No POST /order has assigned the slot yet.
NoSlotWrite ==
    \A r \in Reqs : pc[r] \in {"idle", "arrived", "handler", "rejected", "waiting"}
                    \/ method[r] = "GET" \/ (pc[r] = "locked" /\ method[r] = "POST")

\* Request r is a GET / that answers in this step.
ShowOrderAnswers(r) == method[r] = "GET" /\ pc[r] = "locked" /\ pc'[r] = "done"

\* C4: the slot is absent until a POST /order assigns it; a GET / answers with
\* the placeholder exactly when the slot is absent, and with the rendering of
\* the Order in the slot otherwise, by the one serializer the build has.
C4_EmptyUntilSetAndGetFollowsSlot ==
    /\ [](NoSlotWrite => cache = None)
    /\ [][\A r \in Reqs :
            ShowOrderAnswers(r) =>
                /\ (resp'[r] = Placeholder) <=> (cache = None)
                /\ cache # None =>
                     resp'[r] = Response("html", "pre", OrderToJson(cache, timeSerde' = "string"))]_vars
    /\ [][timeSerde # "unobserved" => timeSerde' = timeSerde]_vars

\* One GET answered the placeholder, a later one the page of an order
\* without items.
C4_Witness ==
    \E r, q \in Reqs :
        /\ method[r] = "GET" /\ pc[r] = "done" /\ resp[r] = Placeholder
        /\ method[q] = "GET" /\ pc[q] = "done" /\ resp[q].tag = "pre"
        /\ cache # None /\ cache.items = <<>>

\* --------------------------------------------------------------------- C5
\* Request r's INSERT returns Err in this step.
SaveFails(r) == pc[r] = "saving" /\ saveRes'[r] = "err"

\* C5: the slot holds the submitted Order from before the INSERT is issued,
\* and a failed INSERT leaves it there: when the request completes the slot
\* is still that Order and the table has no new row.
C5_CacheSetFirstAndNotRolledBack ==
    /\ [](\A r \in Reqs : (attempts[r] > 0 /\ pc[r] # "done") => cache = order[r])
    /\ [][\A r \in Reqs :
            SaveFails(r) => (pc'[r] = "done" /\ cache' = order[r] /\ rows' = rows)]_vars

\* A request whose INSERT failed has completed; its Order is in the slot and
\* in no row of the table.
C5_Witness ==
    \E r \in Reqs :
        /\ pc[r] = "done" /\ saveRes[r] = "err" /\ resp[r] = FailedToSave
        /\ cache = order[r]
        /\ \A i \in DOMAIN rows : rows[i].order_uid # order[r].order_uid

\* --------------------------------------------------------------------- C6
\* The rows inserted since the process started.
NewRows == {i \in DOMAIN rows : i > Len(rows0)}

RowHolds(i, o) == \A c \in Columns : rows[i][c] = BindParams(o)[c]

\* C6: a decoded POST /order answers "Order received" iff save_order_to_db
\* returned Ok and "Failed to save order" iff it returned Err; with "Order
\* received" the table has a new row for the Order, and the step that answers
\* leaves the Order in the slot.
C6_ResponseFollowsSaveResult ==
    /\ [](\A r \in Reqs :
            (method[r] = "POST" /\ pc[r] = "done") =>
                /\ (resp[r] = OrderReceived) <=> (saveRes[r] = "ok")
                /\ (resp[r] = FailedToSave) <=> (saveRes[r] = "err")
                /\ resp[r] = OrderReceived => \E i \in NewRows : RowHolds(i, order[r]))
    /\ [][\A r \in Reqs :
            (pc[r] = "saving" /\ resp'[r] = OrderReceived) =>
                /\ cache = order[r] /\ cache' = order[r]
                /\ Len(rows') = Len(rows) + 1
                /\ \A c \in Columns : rows'[Len(rows')][c] = BindParams(order[r])[c]]_vars

\* One POST answered "Order received", another "Failed to save order".
C6_Witness ==
    \E r, q \in Reqs :
        /\ pc[r] = "done" /\ resp[r] = OrderReceived /\ saveRes[r] = "ok"
        /\ pc[q] = "done" /\ resp[q] = FailedToSave /\ saveRes[q] = "err"

\* --------------------------------------------------------------------- C7
Uids == {rows[i].order_uid : i \in DOMAIN rows}

RowsWith(rs, u) == Cardinality({i \in DOMAIN rs : rs[i].order_uid = u})

SavedWith(u) == Cardinality({r \in Reqs : saveRes[r] = "ok" /\ order[r].order_uid = u})

\* C7: a step changes the table only by appending one row; the rows that
\* were there stay as they are; each order_uid has one row per successful
\* submission, on top of the rows it had at the start.
C7_SaveIsAppendOnly ==
    /\ [][\/ rows' = rows
          \/ /\ Len(rows') = Len(rows) + 1
             /\ \A i \in DOMAIN rows : rows'[i] = rows[i]]_vars
    /\ [](/\ \A r \in Reqs : saveRes[r] = "ok" => order[r].order_uid \in Uids
          /\ \A u \in Uids : RowsWith(rows, u) = RowsWith(rows0, u) + SavedWith(u))

\* The same order_uid was saved twice on top of an existing row: three rows.
C7_Witness ==
    \E r, q \in Reqs :
        /\ r # q
        /\ saveRes[r] = "ok" /\ saveRes[q] = "ok"
        /\ order[r].order_uid = order[q].order_uid
        /\ RowsWith(rows0, order[r].order_uid) = 1
        /\ RowsWith(rows, order[r].order_uid) = 3

\* --------------------------------------------------------------------- C8
\* C8: a failed INSERT leaves the table as it was; a request issues at most
\* one INSERT, and the step in which its INSERT fails is the step in which
\* it answers, once, with the failure.
C8_FailedSaveLeavesRowsAndIsNotRetried ==
    /\ [](\A r \in Reqs : attempts[r] <= 1)
    /\ [][\A r \in Reqs :
            /\ SaveFails(r) => (rows' = rows /\ pc'[r] = "done" /\ resp'[r] = FailedToSave)
            /\ pc[r] = "done" => (pc'[r] = "done" /\ resp'[r] = resp[r]
                                  /\ attempts'[r] = attempts[r])]_vars

\* A save against a table with a row failed: one attempt, the row is there.
C8_Witness ==
    \E r \in Reqs :
        /\ pc[r] = "done" /\ saveRes[r] = "err" /\ attempts[r] = 1
        /\ rows # <<>> /\ rows = rows0

\* --------------------------------------------------------------------- C9
\* Request r is a POST /order whose body the Decoder rejects.
Undecodable(r) == Posted(r) /\ ~Decode(body[r]).ok

InQueue(r) == \E i \in DOMAIN waiters : waiters[i] = r

InLog(r) == \E i \in DOMAIN lockLog : lockLog[i] = r

\* Request r is a POST /order that the handler body has not been entered for.
OutsideHandler(r) == method[r] = "POST" /\ pc[r] \in {"arrived", "rejected"}

\* C9: a POST /order whose body does not decode is answered by the extractor
\* in its first step and stays rejected; that step changes nothing but the
\* request's own state, and a request the handler was not entered for has
\* never asked for the Mutex nor issued an INSERT.
C9_UndecodableIsRejectedUntouched ==
    /\ [](\A r \in Reqs :
            OutsideHandler(r) =>
                /\ lockHolder # r /\ ~InQueue(r) /\ ~InLog(r)
                /\ attempts[r] = 0 /\ saveRes[r] = "none")
    /\ [][\A r \in Reqs :
            /\ (OutsideHandler(r) /\ pc'[r] # pc[r] /\ ~Decode(body[r]).ok) =>
                  /\ pc'[r] = "rejected" /\ resp'[r] = Rejection
                  /\ cache' = cache /\ rows' = rows /\ table' = table
                  /\ lockHolder' = lockHolder /\ waiters' = waiters /\ lockLog' = lockLog
                  /\ \A q \in Reqs \ {r} : pc'[q] = pc[q] /\ resp'[q] = resp[q]
            /\ pc[r] = "rejected" => (pc'[r] = "rejected" /\ resp'[r] = Rejection)]_vars

\* A rejected POST between two served ones: the slot and the table hold what
\* the served requests put there.
C9_Witness ==
    \E r, q \in Reqs :
        /\ r < q
        /\ Undecodable(r) /\ pc[r] = "rejected"
        /\ Decoded(q) /\ pc[q] = "done" /\ resp[q] = OrderReceived
        /\ cache = Submitted(q)

\* -------------------------------------------------------------------- C10
\* The Mutex is held by a request that is inside its handler, or by none.
LockHeldByRunning ==
    /\ lockHolder # 0 => pc[lockHolder] \in {"locked", "written", "saving"}
    /\ \A r \in Reqs : pc[r] \in {"locked", "written", "saving"} => lockHolder = r
    /\ \A r \in Reqs : InQueue(r) <=> pc[r] = "waiting"
    /\ waiters # <<>> => lockHolder # 0

\* C10: no completed request holds the Mutex, also after a failed INSERT;
\* every request that waits for the Mutex gets it, and every request that
\* arrived is answered.
C10_LockReleasedAndEveryRequestAnswered ==
    /\ []LockHeldByRunning
    /\ \A r \in Reqs : (pc[r] = "waiting") ~> (pc[r] = "locked")
    /\ \A r \in Reqs : (pc[r] = "arrived") ~> (pc[r] \in Terminal)

\* After a POST returned early with "Failed to save order", a request that
\* had queued behind it holds the Mutex and another one waits.
C10_Witness ==
    \E r, q \in Reqs :
        /\ r # q
        /\ pc[r] = "done" /\ resp[r] = FailedToSave
        /\ lockHolder = q /\ lockLog[Len(lockLog)] = q /\ Len(lockLog) >= 2
        /\ lockLog[Len(lockLog) - 1] = r
        /\ waiters # <<>>

\* -------------------------------------------------------------------- C11
\* Request q's lock().await is polled for the first time in this step.
AsksForLock(q) ==
    /\ pc[q] = "handler" \/ (pc[q] = "arrived" /\ method[q] = "GET")
    /\ pc'[q] # pc[q]

\* C11: while a POST /order is suspended in its INSERT, a GET / or another
\* POST /order that asks for the Mutex gets it in that step, without waiting
\* for the INSERT to return.
C11_OthersProceedDuringInsert ==
    [][\A r, q \in Reqs :
         (pc[r] = "saving" /\ AsksForLock(q)) => pc'[q] = "locked"]_vars

\* -------------------------------------------------------------------- C12
\* C12: the page of a GET / carries the slot's Order as the Order's own
\* serializer writes it; decoding that text with the Order Decoder succeeds
\* and gives back an Order equal to the one serialized, date_created included.
C12_SerializeThenDecodeIsIdentity ==
    [][\A r \in Reqs :
         (ShowOrderAnswers(r) /\ cache # None) =>
             Decode(resp'[r].body) = [ok |-> TRUE, order |-> cache]]_vars

\* -------------------------------------------------------------------- C13
\* The value j is not a string in RFC 3339 format.
NotRfc3339(j) == ~(j.t = "str" /\ j.v \in Rfc3339Texts)

\* Request r is a POST /order whose date_created is not an RFC 3339 string.
BadDate(r) ==
    /\ method[r] = "POST"
    /\ body[r].t = "obj"
    /\ NotRfc3339(body[r].v.date_created)

\* C13: a POST /order whose date_created is not a string in RFC 3339 format
\* is a DecodeError whatever its other fields are: once the extractor has run
\* the request is rejected, no Order exists for it, it never asked for the
\* Mutex nor issued an INSERT; and the step that rejects it changes neither
\* the slot nor the table.
C13_BadTimestampIsDecodeError ==
    /\ [](\A r \in Reqs :
            (BadDate(r) /\ pc[r] \notin {"idle", "arrived"}) =>
                /\ pc[r] = "rejected" /\ resp[r] = Rejection /\ order[r] = None
                /\ attempts[r] = 0 /\ saveRes[r] = "none"
                /\ lockHolder # r /\ ~InQueue(r) /\ ~InLog(r))
    /\ [][\A r \in Reqs :
            (BadDate(r) /\ pc[r] = "arrived" /\ pc'[r] # pc[r]) =>
                /\ cache' = cache /\ rows' = rows /\ table' = table
                /\ lockHolder' = lockHolder /\ waiters' = waiters /\ lockLog' = lockLog]_vars

\* A body that differs from a decodable one only in its timestamp, a string
\* that is not RFC 3339, was rejected, while the POST beside it was saved and
\* its Order is in the slot.
C13_Witness ==
    /\ BadDate(1) /\ pc[1] = "rejected" /\ resp[1] = Rejection
    /\ body[1].v.date_created.t = "str"
    /\ OrderOk(WithField(body[1], "date_created", PayloadA.v.date_created))
    /\ pc[2] = "done" /\ resp[2] = OrderReceived
    /\ cache = order[2] /\ Len(rows) = Len(rows0) + 1

\* -------------------------------------------------------------------- C14
\* C14: init_orders_shema run against a database that has the orders table
\* returns without error unless the statement cannot be executed at all, and
\* leaves the table and every row as they were; after a run that succeeded
\* the table exists and a second run in succession changes nothing.
C14_EnsureSchemaIdempotent ==
    [][mainPc = "pool" =>
         /\ rows' = rows
         /\ table # None => (table' = table /\ SchemaResult(table, TRUE) = "ok")
         /\ mainPc' = "schema_failed" => table' = table
         /\ mainPc' = "schema" =>
              (table' # None /\ TableAfterCreate(table') = table')]_vars

\* The schema was ensured without error on a table of an earlier run, whose
\* columns are not the declared ones and which holds a row.
C14_Witness ==
    /\ mainPc = "schema"
    /\ table # None /\ table # DeclaredSchema
    /\ rows # <<>> /\ rows = rows0

\* -------------------------------------------------------------------- C15
\* Request r is between the return of lock().await and the drop of its guard.
InCritical(r) == pc[r] \in {"locked", "written", "saving"}

\* Request r assigns the slot in this step.
WritesSlot(r) == method[r] = "POST" /\ pc[r] = "locked" /\ pc'[r] = "written"

\* C15: at most one request has a guard of the Mutex at a time, and it is
\* the holder; the slot changes only in the assignment of a POST /order; the
\* request that assigns the slot and the GET / that reads it hold the Mutex
\* in that step, and no other request has a guard then, so that a read never
\* coincides with a write.
C15_SlotAccessUnderExclusiveLock ==
    /\ [](\A r, q \in Reqs :
            InCritical(r) => (lockHolder = r /\ (q # r => ~InCritical(q))))
    /\ [][/\ cache' # cache => \E r \in Reqs : WritesSlot(r)
          /\ \A r \in Reqs :
               (WritesSlot(r) \/ ShowOrderAnswers(r)) =>
                   /\ lockHolder = r
                   /\ \A q \in Reqs \ {r} : ~InCritical(q)]_vars

\* A GET / holds the Mutex and is about to read an Order while a POST /order
\* that wants to overwrite it is queued.
C15_Witness ==
    \E g, q \in Reqs :
        /\ method[g] = "GET" /\ pc[g] = "locked" /\ lockHolder = g
        /\ method[q] = "POST" /\ pc[q] = "waiting"
        /\ cache # None /\ cache # order[q]

\* -------------------------------------------------------------------- C16
\* C16: the process starts to serve only from a startup in which the pool
\* was opened and init_orders_shema returned without error, and a failed
\* startup step ends in the abort of the process; a request is handled, and
\* an INSERT issued, only while the process serves and the orders table,
\* which a successful startup leaves in place, exists.
C16_NoServingAfterFailedStartup ==
    [][/\ (mainPc # "serving" /\ mainPc' = "serving") => mainPc = "schema"
       /\ mainPc = "schema_failed" => mainPc' \in {"schema_failed", "aborted"}
       /\ \A r \in Reqs :
            /\ pc'[r] # pc[r] => mainPc = "serving"
            /\ attempts'[r] > attempts[r] => table # None]_vars

\* -------------------------------------------------------------------- C17
\* C17: every parameter save_order_to_db binds has the type init_orders_shema
\* declares for its column, so that the INSERT of a decoded Order into the
\* table init_orders_shema created, on a database that executes the
\* statement, is accepted and adds one row.
C17_BoundTypesMatchDeclaredSchema ==
    \A r \in Reqs :
        (pc[r] = "saving" /\ table = DeclaredSchema) =>
            /\ \A c \in Columns : ParamTypes[c] = DeclaredSchema[c]
            /\ SaveResult(table, TRUE) = "ok"
            /\ Len(RowsAfterSave(rows, table, order[r], TRUE)) = Len(rows) + 1

\* -------------------------------------------------------------------- C18
\* The integer n is the value of the u32 u = hi * 2^31 + lo.
IsValueOf(n, u) == u.hi = 0 /\ n = u.lo

\* C18: the parameter bound for sm_id has the value of the submitted
\* Order's sm_id, whatever u32 that is, and so has the sm_id of the row a
\* successful INSERT adds.
C18_SmIdIsStoredUnchanged ==
    [][\A r \in Reqs :
         (pc[r] = "saving" /\ pc'[r] = "done") =>
             /\ IsValueOf(BindParams(order[r]).sm_id, order[r].sm_id)
             /\ saveRes'[r] = "ok" =>
                  IsValueOf(rows'[Len(rows')].sm_id, order[r].sm_id)]_vars

\* -------------------------------------------------------------------- C19
\* Request r has assigned the slot and its INSERT has not returned yet.
InsertPending(r) == pc[r] \in {"written", "saving"}

\* No POST /order has a guard of the Mutex.
NoPostHoldsLock == lockHolder = 0 \/ method[lockHolder] = "GET"

\* The requests whose INSERT succeeded, in the order they acquired the Mutex.
SavedInLockOrder == SelectSeq(lockLog, LAMBDA r : saveRes[r] = "ok")

\* C19: a POST /order holds the Mutex from its assignment of the slot until
\* its INSERT has returned; meanwhile no other request assigns the slot or
\* issues or completes an INSERT, so INSERTs happen in the order of the
\* assignments and the rows added are in the order the Mutex was acquired.
\* A GET / reads the slot only when no INSERT is pending, and an Order it
\* shows belongs to a completed request whose INSERT has returned, with Ok or
\* Err.  When no POST holds the Mutex, the slot is the Order of the POST that
\* acquired it last, whose INSERT has returned, and is absent if there is none.
C19_LockHeldAcrossInsert ==
    /\ [](/\ \A r \in Reqs : InsertPending(r) => (lockHolder = r /\ cache = order[r])
          /\ Len(rows) = Len(rows0) + Len(SavedInLockOrder)
          /\ \A i \in DOMAIN SavedInLockOrder :
               rows[Len(rows0) + i].order_uid = order[SavedInLockOrder[i]].order_uid
          /\ NoPostHoldsLock =>
               IF LockedPosts = {} THEN cache = None
               ELSE /\ cache = order[LastLockedPost]
                    /\ pc[LastLockedPost] = "done"
                    /\ attempts[LastLockedPost] = 1
                    /\ saveRes[LastLockedPost] # "none")
    /\ [][\A r \in Reqs :
            /\ (InsertPending(r) /\ pc'[r] # "done") =>
                  /\ lockHolder' = r
                  /\ cache' = cache /\ rows' = rows
                  /\ \A q \in Reqs \ {r} :
                       attempts'[q] = attempts[q] /\ saveRes'[q] = saveRes[q]
            /\ ShowOrderAnswers(r) =>
                  /\ \A q \in Reqs : ~InsertPending(q)
                  /\ cache # None =>
                       \E q \in Reqs :
                           /\ pc[q] = "done" /\ saveRes[q] # "none"
                           /\ order[q] = cache]_vars

\* A POST whose INSERT failed, then a GET / that showed its Order, then a
\* POST of another Order whose INSERT is in flight: they acquired the Mutex
\* in this order.
C19_Witness ==
    \E r, g, q \in Reqs :
        /\ lockLog = <<r, g, q>>
        /\ pc[r] = "done" /\ saveRes[r] = "err"
        /\ method[g] = "GET" /\ pc[g] = "done"
        /\ resp[g] = RenderSlot(order[r], timeSerde = "string")
        /\ pc[q] = "saving" /\ cache = order[q] /\ order[q] # order[r]

\* -------------------------------------------------------------------- C20
\* Some POST /order has assigned the slot.
SlotWritten ==
    \E r \in Reqs : method[r] = "POST" /\ pc[r] \in {"written", "saving", "done"}

\* C20: once a POST /order has assigned the slot, the slot holds an Order in
\* every later state, whatever requests follow and however their INSERTs
\* end, and no GET / that answers afterwards gives the placeholder.
C20_SlotNeverReturnsToAbsent ==
    /\ [](SlotWritten => cache # None)
    /\ [][/\ cache # None => cache' # None
          /\ SlotWritten => SlotWritten'
          /\ \A r \in Reqs :
               (SlotWritten /\ ShowOrderAnswers(r)) => resp'[r] # Placeholder]_vars

\* A POST whose INSERT failed, then a POST that was rejected, then a GET /:
\* the page shows the Order of the first, which is still in the slot.
C20_Witness ==
    \E r, u, g \in Reqs :
        /\ r < u /\ u < g
        /\ pc[r] = "done" /\ saveRes[r] = "err"
        /\ Undecodable(u) /\ pc[u] = "rejected"
        /\ method[g] = "GET" /\ pc[g] = "done" /\ resp[g].tag = "pre"
        /\ lockLog = <<r, g>>
        /\ cache = order[r]
====
